---- MODULE Spec2Model ----
(***************************************************************************)
(* Model of the task persistence layer of the ToDo application:            *)
(*   todo_logic/task.py          class Task                                *)
(*   todo_logic/task_manager.py  class TaskManager                         *)
(* Python values are tagged records so that a value's type is part of the  *)
(* value: a str, None, a bool and a datetime are all different values.     *)
(* A str is a sequence of one-character strings.  A task_id is a natural   *)
(* number; 0 stands for the empty string (the only falsy str).             *)
(***************************************************************************)
EXTENDS Integers, Sequences, FiniteSets, TLC

VARIABLES
    tasks,    \* TaskManager._tasks: insertion-ordered dict, a sequence of [key, task]
    file,     \* the file at TaskManager._path
    call,     \* the last operation called and its arguments
    result,   \* what that call returned, or the exception it raised
    steps,    \* number of operations performed so far
    obj,      \* a Task object held by a caller (Task specification)
    rec,      \* the dictionary obj.to_dict() returned (Task specification)
    made,     \* the Task that Task.from_dict(rec) made (Task specification)
    cmp,      \* what comparing obj with another Task gave (Task specification)
    disk,     \* whether the file system lets the file be opened and written
    listing,  \* the tuple the tasks property returned last, as object references
    controls, \* TodoApp.tasks.controls: the TaskUi controls, in display order
    tab       \* TodoApp.filter.selected_index

vars == <<tasks, file, call, result, steps, obj, rec, made, cmp, disk, listing,
          controls, tab>>

(***************************************************************************)
(* Bounds                                                                  *)
(***************************************************************************)
MaxLen == 2      \* longest string given to a Task as a name or description
MaxIds == 2      \* number of distinct non-empty task ids
MaxSteps == 3    \* longest sequence of store operations explored

Chars == {" ", "a"}
Strings == UNION {[1..n -> Chars] : n \in 0..MaxLen}
Ids == 1..MaxIds

(***************************************************************************)
(* Python values                                                           *)
(***************************************************************************)
PyNone == [t |-> "None"]
PyStr(s) == [t |-> "str", v |-> s]
PyBool(b) == [t |-> "bool", v |-> b]
PyDateTime(d) == [t |-> "datetime", v |-> d]

DateTimes == {PyDateTime("2024-05-01T12:00:00")}
\* every str up to MaxLen characters (Task specification)
AllStrArgs == {PyStr(s) : s \in Strings}
\* the str values given to the store's operations: an empty one, a
\* whitespace-only one, a plain one and one with whitespace around it
StrArgs == {PyStr(<<>>), PyStr(<<" ">>), PyStr(<<"a">>), PyStr(<<" ", "b", " ">>)}
BoolArgs == {PyBool(b) : b \in BOOLEAN}

\* str.strip(): remove leading and trailing whitespace
RECURSIVE LStrip(_)
LStrip(s) == IF s # <<>> /\ Head(s) = " " THEN LStrip(Tail(s)) ELSE s

RECURSIVE RStrip(_)
RStrip(s) == IF s # <<>> /\ s[Len(s)] = " " THEN RStrip(SubSeq(s, 1, Len(s) - 1)) ELSE s

Strip(s) == RStrip(LStrip(s))

(***************************************************************************)
(* class Task.  A setter yields [exc, task]: exc is "" when it returns and *)
(* the name of the exception when it raises; task is the object after.     *)
(***************************************************************************)
NoTask == [t |-> "NoTask"]

\* the name is validated stripped but stored as it was given
NameSetterKeepsWhitespace(task, value) ==
    LET s == Strip(value.v)
    IN  IF s = <<>>
        THEN [exc |-> "ValueError", task |-> task]
        ELSE [exc |-> "", task |-> [task EXCEPT !.name = value]]

NameSetter(task, value) ==
    LET s == Strip(value.v)
    IN  IF s = <<>>
        THEN [exc |-> "ValueError", task |-> task]
        ELSE [exc |-> "", task |-> [task EXCEPT !.name = PyStr(s)]]

\* a blank description is stored as None instead of being rejected
DescriptionSetterBlankIsNone(task, value) ==
    IF value # PyNone /\ Strip(value.v) # <<>>
    THEN [exc |-> "", task |-> [task EXCEPT !.description = PyStr(Strip(value.v))]]
    ELSE [exc |-> "", task |-> [task EXCEPT !.description = PyNone]]

DescriptionSetter(task, value) ==
    IF value # PyNone
    THEN LET s == Strip(value.v)
         IN  IF s = <<>>
             THEN [exc |-> "ValueError", task |-> task]
             ELSE [exc |-> "", task |-> [task EXCEPT !.description = PyStr(s)]]
    ELSE [exc |-> "", task |-> [task EXCEPT !.description = PyNone]]

DueDateSetter(task, value) ==
    [exc |-> "", task |-> [task EXCEPT !.due_date = value]]

\* bool(value): None is falsy
IsCompleteSetter(task, value) ==
    [exc |-> "", task |-> [task EXCEPT !.is_complete =
                              PyBool(IF value = PyNone THEN FALSE ELSE value.v)]]

\* Task.__init__: uuid is the value str(uuid4()) returns when task_id is falsy
TaskInit(name, description, due_date, task_id, is_complete, uuid) ==
    LET t0 == [task_id |-> IF task_id # 0 THEN task_id ELSE uuid,
               name |-> PyNone, description |-> PyNone,
               due_date |-> PyNone, is_complete |-> PyNone]
        r1 == NameSetter(t0, name)
        r2 == DescriptionSetter(r1.task, description)
        r3 == DueDateSetter(r2.task, due_date)
        r4 == IsCompleteSetter(r3.task, is_complete)
    IN  IF r1.exc # "" THEN [exc |-> r1.exc, task |-> NoTask]
        ELSE IF r2.exc # "" THEN [exc |-> r2.exc, task |-> NoTask]
        ELSE r4

\* Task.to_dict: every field is copied as it is
ToDict(task) ==
    [name |-> task.name, description |-> task.description,
     due_date |-> task.due_date, task_id |-> task.task_id,
     is_complete |-> task.is_complete]

\* from_dict that does not pass is_complete on to the constructor
FromDictIgnoresComplete(adict, uuid) ==
    TaskInit(adict.name, adict.description, adict.due_date, adict.task_id,
             PyBool(FALSE), uuid)

\* Task.from_dict: cls(**adict)
FromDict(adict, uuid) ==
    TaskInit(adict.name, adict.description, adict.due_date, adict.task_id,
             adict.is_complete, uuid)

\* whether value is a Task (every Task has a task_id, no other value has)
IsTask(value) == "task_id" \in DOMAIN value

\* Task.__eq__ that compares the names as well
TaskEqByIdAndName(a, b) ==
    IF ~IsTask(b) THEN FALSE ELSE a.task_id = b.task_id /\ a.name = b.name

\* Task.__eq__: isinstance(value, type(self)), then the task_ids
TaskEq(a, b) == IF ~IsTask(b) THEN FALSE ELSE a.task_id = b.task_id

\* Task.__ne__: not self.__eq__(value)
TaskNe(a, b) == ~TaskEq(a, b)

\* hash() of a str: a function of the str that is not one-to-one
StrHash(id) == id % 2

\* Task.__hash__: hash(self.task_id)
TaskHash(a) == StrHash(a.task_id)

(***************************************************************************)
(* dict[str, Task]: insertion-ordered, keys unique                         *)
(***************************************************************************)
Keys(d) == {d[i].key : i \in DOMAIN d}

HasKey(d, k) == \E i \in DOMAIN d : d[i].key = k

\* dict.get(k): the value, or None
DictGet(d, k) ==
    IF HasKey(d, k) THEN d[CHOOSE i \in DOMAIN d : d[i].key = k].task ELSE PyNone

\* d[k] = task: an existing key keeps its position
DictSet(d, k, task) ==
    IF HasKey(d, k)
    THEN [i \in DOMAIN d |-> IF d[i].key = k THEN [key |-> k, task |-> task] ELSE d[i]]
    ELSE Append(d, [key |-> k, task |-> task])

\* the dict without key k
DictRemove(d, k) == SelectSeq(d, LAMBDA e : e.key # k)

\* the tasks property returning the tasks sorted by task_id
TasksTupleSortedById(d) ==
    LET order == CHOOSE f \in [DOMAIN d -> DOMAIN d] :
                    /\ \A i, k \in DOMAIN d : i # k => f[i] # f[k]
                    /\ \A i, k \in DOMAIN d :
                          i < k => d[f[i]].task.task_id <= d[f[k]].task.task_id
    IN  [i \in DOMAIN d |-> d[order[i]].task]

\* TaskManager.tasks: tuple(self._tasks.values())
TasksTuple(d) == [i \in DOMAIN d |-> d[i].task]

(***************************************************************************)
(* The file.  kind is "absent", "json" (a JSON array of the records recs)  *)
(* or "invalid" (text json.load rejects; recs are the records that were    *)
(* written completely before the text ends).                               *)
(***************************************************************************)
AbsentFile == [kind |-> "absent", recs |-> <<>>]
JsonFile(recs) == [kind |-> "json", recs |-> recs]
InvalidFile(recs) == [kind |-> "invalid", recs |-> recs]

\* json.dump encodes str, None and bool; any other object raises TypeError
JsonSerializable(adict) ==
    /\ adict.name.t \in {"str", "None", "bool"}
    /\ adict.description.t \in {"str", "None", "bool"}
    /\ adict.due_date.t \in {"str", "None", "bool"}
    /\ adict.is_complete.t \in {"str", "None", "bool"}

\* TaskManager.save_tasks: open("w") truncates the file, json.dump writes the
\* records one after the other and raises at the first value it cannot encode.
\* Nothing catches an OSError: when open() fails the file is as it was, when
\* the first write fails the file is left truncated.
SaveTasks(d) ==
    LET save_list == [i \in DOMAIN d |-> ToDict(d[i].task)]
        bad == {i \in DOMAIN d : ~JsonSerializable(save_list[i])}
    IN  IF disk = "open fails"
        THEN [exc |-> "OSError", file |-> file]
        ELSE IF disk = "write fails"
        THEN [exc |-> "OSError", file |-> InvalidFile(<<>>)]
        ELSE IF bad = {}
        THEN [exc |-> "", file |-> JsonFile(save_list)]
        ELSE LET first == CHOOSE i \in bad : \A j \in bad : i <= j
             IN  [exc |-> "TypeError",
                  file |-> InvalidFile(SubSeq(save_list, 1, first - 1))]

\* {task["task_id"]: Task.from_dict(task) for task in tasks}, records 1..n;
\* yields [exc, d]
RECURSIVE DictComprehension(_, _, _)
DictComprehension(recs, uuids, n) ==
    IF n = 0 THEN [exc |-> "", d |-> <<>>]
    ELSE LET before == DictComprehension(recs, uuids, n - 1)
             new == FromDict(recs[n], uuids[n])
         IN  IF before.exc # "" THEN before
             ELSE IF new.exc # "" THEN [exc |-> new.exc, d |-> <<>>]
             ELSE [exc |-> "", d |-> DictSet(before.d, recs[n].task_id, new.task)]

\* load_tasks that empties the mapping when there is no file
LoadTasksClearsWhenAbsent(d, f, uuids) ==
    IF f.kind = "absent"
    THEN [exc |-> "", tasks |-> <<>>, file |-> f]
    ELSE IF f.kind = "invalid"
    THEN LET saved == SaveTasks(d)
         IN  [exc |-> saved.exc, tasks |-> d, file |-> saved.file]
    ELSE LET loaded == DictComprehension(f.recs, uuids, Len(f.recs))
         IN  IF loaded.exc # ""
             THEN [exc |-> loaded.exc, tasks |-> d, file |-> f]
             ELSE [exc |-> "", tasks |-> loaded.d, file |-> f]

\* TaskManager.load_tasks on mapping d and file f; yields [exc, tasks, file]
LoadTasks(d, f, uuids) ==
    IF f.kind = "absent"
    THEN [exc |-> "", tasks |-> d, file |-> f]
    ELSE IF f.kind = "invalid"
    THEN LET saved == SaveTasks(d)
         IN  [exc |-> saved.exc, tasks |-> d, file |-> saved.file]
    ELSE LET loaded == DictComprehension(f.recs, uuids, Len(f.recs))
         IN  IF loaded.exc # ""
             THEN [exc |-> loaded.exc, tasks |-> d, file |-> f]
             ELSE [exc |-> "", tasks |-> loaded.d, file |-> f]

\* the values uuid4() may return for the records of file f
Uuids(f) ==
    IF \E i \in DOMAIN f.recs : f.recs[i].task_id = 0
    THEN [DOMAIN f.recs -> Ids]
    ELSE {[i \in DOMAIN f.recs |-> 1]}

\* the value a call yields: what it returns, or the exception it raises
Outcome(exc, returned) == IF exc # "" THEN exc ELSE returned

NoArgs == [task_id |-> 0, name |-> PyNone, description |-> PyNone,
           due_date |-> PyNone, is_complete |-> PyNone]

Called(op, args) ==
    [op |-> op, task_id |-> args.task_id, name |-> args.name,
     description |-> args.description, due_date |-> args.due_date,
     is_complete |-> args.is_complete]

(***************************************************************************)
(* class TaskManager                                                       *)
(***************************************************************************)
\* TaskManager.__init__ on a path holding file f
Construct(f) == LoadTasks(<<>>, f, [i \in DOMAIN f.recs |-> 1])

\* the files a first start may find
InitFiles == {AbsentFile, InvalidFile(<<>>), JsonFile(<<>>)}

Init ==
    /\ disk = "ok"
    /\ \E f \in InitFiles :
          /\ tasks = Construct(f).tasks
          /\ file = Construct(f).file
    /\ call = Called("__init__", NoArgs)
    /\ result = "None"
    /\ steps = 0
    /\ obj = NoTask
    /\ rec = NoTask
    /\ made = NoTask
    /\ cmp = NoTask
    /\ listing = <<>>
    /\ controls = <<>>
    /\ tab = 0

\* a new TaskManager on the same path (the application is started again)
Restart ==
    /\ steps < MaxSteps
    /\ \E uuids \in Uuids(file) :
          LET r == LoadTasks(<<>>, file, uuids)
          IN  /\ tasks' = (IF r.exc = "" THEN r.tasks ELSE <<>>)
              /\ file' = r.file
              /\ result' = Outcome(r.exc, "None")
    /\ call' = Called("__init__", NoArgs)
    /\ steps' = steps + 1
    /\ UNCHANGED <<obj, rec, made>>

\* TaskManager.load_tasks()
LoadTasksCall ==
    /\ steps < MaxSteps
    /\ \E uuids \in Uuids(file) :
          LET r == LoadTasks(tasks, file, uuids)
          IN  /\ tasks' = r.tasks
              /\ file' = r.file
              /\ result' = Outcome(r.exc, "None")
    /\ call' = Called("load_tasks", NoArgs)
    /\ steps' = steps + 1
    /\ UNCHANGED <<obj, rec, made>>

\* the Task objects a caller can construct
NewTasks ==
    {r.task : r \in {x \in {TaskInit(n, d, due, id, c, id) :
                                n \in StrArgs, d \in StrArgs \cup {PyNone},
                                due \in DateTimes \cup {PyNone}, id \in Ids,
                                c \in BoolArgs} : x.exc = ""}}

\* add_task that catches the OSError of a failed write and returns False
AddTaskSwallowsOSError(task) ==
    /\ steps < MaxSteps
    /\ IF DictGet(tasks, task.task_id) # PyNone
       THEN /\ result' = "False"
            /\ UNCHANGED <<tasks, file>>
       ELSE LET d == DictSet(tasks, task.task_id, task)
                saved == SaveTasks(d)
            IN  /\ tasks' = d
                /\ file' = saved.file
                /\ result' = IF saved.exc = "OSError" THEN "False"
                             ELSE Outcome(saved.exc, "True")
    /\ call' = Called("add_task", task)
    /\ steps' = steps + 1
    /\ UNCHANGED <<obj, rec, made>>

\* add_task that writes the file before it inserts the task
AddTaskSavesFirst(task) ==
    /\ steps < MaxSteps
    /\ IF DictGet(tasks, task.task_id) # PyNone
       THEN /\ result' = "False"
            /\ UNCHANGED <<tasks, file>>
       ELSE LET saved == SaveTasks(tasks)
            IN  /\ tasks' = DictSet(tasks, task.task_id, task)
                /\ file' = saved.file
                /\ result' = Outcome(saved.exc, "True")
    /\ call' = Called("add_task", task)
    /\ steps' = steps + 1
    /\ UNCHANGED <<obj, rec, made>>

\* TaskManager.add_task(task)
AddTask(task) ==
    /\ steps < MaxSteps
    /\ IF DictGet(tasks, task.task_id) # PyNone
       THEN /\ result' = "False"
            /\ UNCHANGED <<tasks, file>>
       ELSE LET d == DictSet(tasks, task.task_id, task)
                saved == SaveTasks(d)
            IN  /\ tasks' = d
                /\ file' = saved.file
                /\ result' = Outcome(saved.exc, "True")
    /\ call' = Called("add_task", task)
    /\ steps' = steps + 1
    /\ UNCHANGED <<obj, rec, made>>

\* modify_task that replaces the stored object by Task(...) built without its
\* task_id, so that the object gets a fresh uuid
ModifySettersRebuilds(task, name, description, due_date, is_complete) ==
    LET r1 == IF name # PyNone THEN NameSetter(task, name)
              ELSE [exc |-> "", task |-> task]
        r2 == IF description # PyNone THEN DescriptionSetter(r1.task, description)
              ELSE [exc |-> "", task |-> r1.task]
        r3 == IF due_date # PyNone THEN DueDateSetter(r2.task, due_date)
              ELSE [exc |-> "", task |-> r2.task]
        r4 == IF is_complete # PyNone THEN IsCompleteSetter(r3.task, is_complete)
              ELSE [exc |-> "", task |-> r3.task]
        uuid == CHOOSE i \in Ids : i # task.task_id
    IN  IF r1.exc # "" THEN r1
        ELSE IF r2.exc # "" THEN r2
        ELSE [exc |-> "", task |-> [r4.task EXCEPT !.task_id = uuid]]

\* modify_task that tests "if is_complete:" and so ignores is_complete=False
ModifySettersTruthy(task, name, description, due_date, is_complete) ==
    LET r1 == IF name # PyNone THEN NameSetter(task, name)
              ELSE [exc |-> "", task |-> task]
        r2 == IF description # PyNone THEN DescriptionSetter(r1.task, description)
              ELSE [exc |-> "", task |-> r1.task]
        r3 == IF due_date # PyNone THEN DueDateSetter(r2.task, due_date)
              ELSE [exc |-> "", task |-> r2.task]
        r4 == IF is_complete = PyBool(TRUE) THEN IsCompleteSetter(r3.task, is_complete)
              ELSE [exc |-> "", task |-> r3.task]
    IN  IF r1.exc # "" THEN r1
        ELSE IF r2.exc # "" THEN r2
        ELSE r4

\* the setters modify_task calls, in its order; yields [exc, task]
ModifySetters(task, name, description, due_date, is_complete) ==
    LET r1 == IF name # PyNone THEN NameSetter(task, name)
              ELSE [exc |-> "", task |-> task]
        r2 == IF description # PyNone THEN DescriptionSetter(r1.task, description)
              ELSE [exc |-> "", task |-> r1.task]
        r3 == IF due_date # PyNone THEN DueDateSetter(r2.task, due_date)
              ELSE [exc |-> "", task |-> r2.task]
        r4 == IF is_complete # PyNone THEN IsCompleteSetter(r3.task, is_complete)
              ELSE [exc |-> "", task |-> r3.task]
    IN  IF r1.exc # "" THEN r1
        ELSE IF r2.exc # "" THEN r2
        ELSE r4

\* modify_task that writes the file in a finally clause, after a setter raised too
ModifyTaskSavesAfterReject(task_id, name, description, due_date, is_complete) ==
    /\ steps < MaxSteps
    /\ IF DictGet(tasks, task_id) # PyNone
       THEN LET r == ModifySetters(DictGet(tasks, task_id), name, description,
                                   due_date, is_complete)
                d == DictSet(tasks, task_id, r.task)
                saved == SaveTasks(d)
            IN  /\ tasks' = d
                /\ file' = saved.file
                /\ result' = IF r.exc # "" THEN r.exc ELSE Outcome(saved.exc, "True")
       ELSE /\ result' = "False"
            /\ UNCHANGED <<tasks, file>>
    /\ call' = Called("modify_task",
                      [task_id |-> task_id, name |-> name, description |-> description,
                       due_date |-> due_date, is_complete |-> is_complete])
    /\ steps' = steps + 1
    /\ UNCHANGED <<obj, rec, made>>

\* modify_task that writes the file whether or not it found the task
ModifyTaskAlwaysSaves(task_id, name, description, due_date, is_complete) ==
    /\ steps < MaxSteps
    /\ IF DictGet(tasks, task_id) # PyNone
       THEN LET r == ModifySetters(DictGet(tasks, task_id), name, description,
                                   due_date, is_complete)
                d == DictSet(tasks, task_id, r.task)
                saved == SaveTasks(d)
            IN  IF r.exc # ""
                THEN /\ tasks' = d
                     /\ result' = r.exc
                     /\ UNCHANGED file
                ELSE /\ tasks' = d
                     /\ file' = saved.file
                     /\ result' = Outcome(saved.exc, "True")
       ELSE /\ result' = Outcome(SaveTasks(tasks).exc, "False")
            /\ file' = SaveTasks(tasks).file
            /\ UNCHANGED tasks
    /\ call' = Called("modify_task",
                      [task_id |-> task_id, name |-> name, description |-> description,
                       due_date |-> due_date, is_complete |-> is_complete])
    /\ steps' = steps + 1
    /\ UNCHANGED <<obj, rec, made>>

\* TaskManager.modify_task(task_id, name=, description=, due_date=, is_complete=).
\* The setters act on the stored object itself, so what they did before one of
\* them raised stays in the mapping.
ModifyTask(task_id, name, description, due_date, is_complete) ==
    /\ steps < MaxSteps
    /\ IF DictGet(tasks, task_id) # PyNone
       THEN LET r == ModifySetters(DictGet(tasks, task_id), name, description,
                                   due_date, is_complete)
                d == DictSet(tasks, task_id, r.task)
                saved == SaveTasks(d)
            IN  IF r.exc # ""
                THEN /\ tasks' = d
                     /\ result' = r.exc
                     /\ UNCHANGED file
                ELSE /\ tasks' = d
                     /\ file' = saved.file
                     /\ result' = Outcome(saved.exc, "True")
       ELSE /\ result' = "False"
            /\ UNCHANGED <<tasks, file>>
    /\ call' = Called("modify_task",
                      [task_id |-> task_id, name |-> name, description |-> description,
                       due_date |-> due_date, is_complete |-> is_complete])
    /\ steps' = steps + 1
    /\ UNCHANGED <<obj, rec, made>>

\* delete_task that removes the task from memory and does not write the file
DeleteTaskWithoutSave(task_id) ==
    /\ steps < MaxSteps
    /\ IF ~HasKey(tasks, task_id)
       THEN /\ result' = "KeyError"
            /\ UNCHANGED <<tasks, file>>
       ELSE /\ tasks' = DictRemove(tasks, task_id)
            /\ result' = "True"
            /\ UNCHANGED file
    /\ call' = Called("delete_task", [NoArgs EXCEPT !.task_id = task_id])
    /\ steps' = steps + 1
    /\ UNCHANGED <<obj, rec, made>>

\* TaskManager.delete_task(task_id): dict.pop raises KeyError for a missing key
DeleteTask(task_id) ==
    /\ steps < MaxSteps
    /\ IF ~HasKey(tasks, task_id)
       THEN /\ result' = "KeyError"
            /\ UNCHANGED <<tasks, file>>
       ELSE LET d == DictRemove(tasks, task_id)
                saved == SaveTasks(d)
            IN  /\ tasks' = d
                /\ file' = saved.file
                /\ result' = Outcome(saved.exc, "True")
    /\ call' = Called("delete_task", [NoArgs EXCEPT !.task_id = task_id])
    /\ steps' = steps + 1
    /\ UNCHANGED <<obj, rec, made>>

\* the file is removed from outside the program
FileRemoved ==
    /\ steps < MaxSteps
    /\ file.kind # "absent"
    /\ file' = AbsentFile
    /\ call' = Called("file removed", NoArgs)
    /\ result' = "None"
    /\ steps' = steps + 1
    /\ UNCHANGED <<tasks, obj, rec, made>>

\* the file is overwritten from outside the program with text that is no JSON
FileCorrupted ==
    /\ steps < MaxSteps
    /\ file # InvalidFile(<<>>)
    /\ file' = InvalidFile(<<>>)
    /\ call' = Called("file corrupted", NoArgs)
    /\ result' = "None"
    /\ steps' = steps + 1
    /\ UNCHANGED <<tasks, obj, rec, made>>

\* the variables of the other specifications, which the store leaves alone
others == <<cmp, disk, listing, controls, tab>>

Next ==
    \/ Restart /\ UNCHANGED others
    \/ LoadTasksCall /\ UNCHANGED others
    \/ \E task \in NewTasks : AddTask(task) /\ UNCHANGED others
    \/ \E task_id \in Ids, name \in StrArgs \cup {PyNone},
          description \in StrArgs \cup {PyNone},
          due_date \in DateTimes \cup {PyNone},
          is_complete \in BoolArgs \cup {PyNone} :
          ModifyTask(task_id, name, description, due_date, is_complete)
             /\ UNCHANGED others
    \/ \E task_id \in Ids : DeleteTask(task_id) /\ UNCHANGED others
    \/ FileRemoved /\ UNCHANGED others
    \/ FileCorrupted /\ UNCHANGED others

Spec == Init /\ [][Next]_vars

(***************************************************************************)
(* Scenario specification: a store made where no file exists, to which a   *)
(* caller adds a new Task, reads the listing, completes the task it finds  *)
(* there, reads the listing, deletes that task, and reads the listing.     *)
(***************************************************************************)
\* the tuple the tasks property returns holds references to the stored Task
\* objects; an object is identified by its task_id
Listing(d) == [i \in DOMAIN d |-> TasksTuple(d)[i].task_id]

\* listing = task_manager.tasks
ListTasks ==
    /\ listing' = Listing(tasks)
    /\ call' = Called("tasks", NoArgs)
    /\ result' = "tuple"
    /\ UNCHANGED <<tasks, file, obj, rec, made, cmp, disk, controls, tab>>

ScenarioInit ==
    /\ disk = "ok"
    /\ tasks = Construct(AbsentFile).tasks
    /\ file = Construct(AbsentFile).file
    /\ call = Called("__init__", NoArgs)
    /\ result = "None"
    /\ steps = 0
    /\ obj = NoTask
    /\ rec = NoTask
    /\ made = NoTask
    /\ cmp = NoTask
    /\ listing = <<>>
    /\ controls = <<>>
    /\ tab = 0

ScenarioNext ==
    \/ /\ call.op = "__init__"
       /\ \E task \in NewTasks : AddTask(task)
       /\ UNCHANGED others
    \/ /\ call.op \in {"add_task", "modify_task", "delete_task"}
       /\ ListTasks
       /\ UNCHANGED steps
    \/ /\ call.op = "tasks" /\ steps = 1 /\ listing # <<>>
       /\ ModifyTask(listing[1], PyNone, PyNone, PyNone, PyBool(TRUE))
       /\ UNCHANGED others
    \/ /\ call.op = "tasks" /\ steps = 2 /\ listing # <<>>
       /\ DeleteTask(listing[1])
       /\ UNCHANGED others

ScenarioSpec == ScenarioInit /\ [][ScenarioNext]_vars

(***************************************************************************)
(* Listing specification: the store, and a caller that reads the tasks     *)
(* property between the operations and keeps the tuple it got.             *)
(***************************************************************************)
ListNext ==
    \/ Next
    \/ /\ steps < MaxSteps
       /\ ListTasks
       /\ steps' = steps + 1

ListSpec == Init /\ [][ListNext]_vars

(***************************************************************************)
(* Window specification: ui/todo_app.py class TodoApp and ui/task_ui.py     *)
(* class TaskUi.  A control is [task, visible]: task refers to the Task     *)
(* object the TaskUi holds, which is the object in the store (add_clicked   *)
(* gives the same object to add_task, load_tasks takes the objects from the *)
(* tasks property), identified by its task_id; a control is visible when it *)
(* is created.  tab is filter.selected_index.                              *)
(***************************************************************************)
TabTexts == <<"all", "active", "completed">>

\* Utils.get_filter_status with FilterStatus.from_str
GetFilterStatus(status) ==
    IF status \in {"all", "active", "completed"}
    THEN CASE status = "all" -> "ALL"
           [] status = "active" -> "ACTIVE"
           [] status = "completed" -> "COMPLETED"
    ELSE "None"

\* the filter that shows every task on the "active" tab
VisibleActiveShowsAll(status, is_complete) ==
    \/ status = "ALL"
    \/ status = "ACTIVE"
    \/ status = "COMPLETED" /\ is_complete = PyBool(TRUE)

\* the value TodoApp.update gives task_ui.visible
Visible(status, is_complete) ==
    \/ status = "ALL"
    \/ status = "ACTIVE" /\ is_complete = PyBool(FALSE)
    \/ status = "COMPLETED" /\ is_complete = PyBool(TRUE)

\* the task_ids of the Task objects mapping d holds
StoredIds(d) == {d[i].task.task_id : i \in DOMAIN d}

\* task_ui.task: the Task object with this task_id among those d holds (the
\* key it is stored under may differ from its task_id after a load)
UiTask(d, task_id) ==
    d[CHOOSE i \in DOMAIN d : d[i].task.task_id = task_id].task

\* TodoApp.update: the controls after it, for selected_index index and store d
UiUpdate(ctrls, index, d) ==
    LET filter_index == IF index # 0 THEN index ELSE 0
        status == GetFilterStatus(TabTexts[filter_index + 1])
    IN  [i \in DOMAIN ctrls |->
            [ctrls[i] EXCEPT !.visible =
                Visible(status, UiTask(d, ctrls[i].task).is_complete)]]

\* a new TaskUi for the Task object with this id
NewTaskUi(task_id) == [task |-> task_id, visible |-> TRUE]

\* list.remove of the control at position i
RemoveControl(ctrls, i) ==
    [k \in 1..(Len(ctrls) - 1) |-> IF k < i THEN ctrls[k] ELSE ctrls[k + 1]]

\* the tasks this window can have written in an earlier session: a name, no
\* description, no due date
UiTasks ==
    {t \in NewTasks : t.description = PyNone /\ t.due_date = PyNone}

\* the files the window can find when it starts
UiFiles ==
    InitFiles
    \cup {JsonFile(<<ToDict(t)>>) : t \in UiTasks}
    \cup {JsonFile(<<ToDict(p[1]), ToDict(p[2])>>) :
             p \in {q \in UiTasks \X UiTasks : q[1].task_id # q[2].task_id}}

\* TodoApp.__init__: TaskManager(), then TodoApp.load_tasks, which loads the
\* file again and appends a TaskUi for every task
UiInit ==
    /\ disk = "ok"
    /\ \E f \in UiFiles :
          LET first == Construct(f)
              again == LoadTasks(first.tasks, first.file,
                                 [i \in DOMAIN first.file.recs |-> 1])
          IN  /\ tasks = again.tasks
              /\ file = again.file
              /\ controls = [i \in DOMAIN again.tasks |->
                                NewTaskUi(TasksTuple(again.tasks)[i].task_id)]
    /\ tab = 0
    /\ call = Called("__init__", NoArgs)
    /\ result = "None"
    /\ steps = 0
    /\ obj = NoTask
    /\ rec = NoTask
    /\ made = NoTask
    /\ cmp = NoTask
    /\ listing = <<>>

\* a handler that returned, or raised, before it reached the store
Handled(op, outcome) ==
    /\ steps < MaxSteps
    /\ call' = Called(op, NoArgs)
    /\ result' = outcome
    /\ steps' = steps + 1
    /\ UNCHANGED <<tasks, file, obj, rec, made, controls>>

\* TodoApp.add_clicked with new_task_field.value = value; uuid is the id
\* uuid4 gives the new Task
AddClicked(value, uuid) ==
    LET r == TaskInit(value, PyNone, PyNone, 0, PyBool(FALSE), uuid)
    IN  /\ IF value.v = <<>>
           THEN Handled("add_clicked", "None")
           ELSE IF r.exc # ""
           THEN Handled("add_clicked", r.exc)
           ELSE /\ AddTask(r.task)
                /\ controls' = IF result' = "True"
                                THEN UiUpdate(Append(controls, NewTaskUi(r.task.task_id)),
                                              tab, tasks')
                                ELSE controls
        /\ UNCHANGED <<tab, cmp, disk, listing>>

\* a TaskUi handler assigned a field of its Task object (task is the object
\* after the assignment), and modify_task then found no such key: the object
\* is changed where it is, nothing is written and TodoApp.update is not called
AssignedOnly(task, args) ==
    /\ steps < MaxSteps
    /\ tasks' = [k \in DOMAIN tasks |->
                    IF tasks[k].task.task_id = task.task_id
                    THEN [tasks[k] EXCEPT !.task = task]
                    ELSE tasks[k]]
    /\ call' = Called("modify_task", args)
    /\ result' = "False"
    /\ steps' = steps + 1
    /\ UNCHANGED <<file, obj, rec, made, controls>>

\* TaskUi.save_clicked of control i with edit_name_field.value = value:
\* self.task.name = string, then TodoApp.on_task_event(RENAME)
SaveClicked(i, value) ==
    /\ i \in DOMAIN controls
    /\ IF Strip(value.v) = <<>>
       THEN Handled("save_clicked", "None")
       ELSE IF ~HasKey(tasks, controls[i].task)
       THEN AssignedOnly(NameSetter(UiTask(tasks, controls[i].task),
                                    PyStr(Strip(value.v))).task,
                         [NoArgs EXCEPT !.task_id = controls[i].task,
                                        !.name = PyStr(Strip(value.v))])
       ELSE /\ ModifyTask(controls[i].task, PyStr(Strip(value.v)), PyNone, PyNone, PyNone)
            /\ controls' = IF result' = "True"
                            THEN UiUpdate(controls, tab, tasks')
                            ELSE controls
    /\ UNCHANGED <<tab, cmp, disk, listing>>

\* TaskUi.status_changed of control i with display_task.value = value:
\* self._task.is_complete = is_complete, then
\* TodoApp.on_task_event(SWITCH_COMPLETE)
StatusChanged(i, value) ==
    /\ i \in DOMAIN controls
    /\ IF value = PyNone
       THEN Handled("status_changed", "None")
       ELSE IF ~HasKey(tasks, controls[i].task)
       THEN AssignedOnly(IsCompleteSetter(UiTask(tasks, controls[i].task), value).task,
                         [NoArgs EXCEPT !.task_id = controls[i].task,
                                        !.is_complete = value])
       ELSE /\ ModifyTask(controls[i].task, PyNone, PyNone, PyNone, value)
            /\ controls' = IF result' = "True"
                            THEN UiUpdate(controls, tab, tasks')
                            ELSE controls
    /\ UNCHANGED <<tab, cmp, disk, listing>>

\* a delete handler that removes the control whatever delete_task did
DeleteClickedRemovesAnyway(i) ==
    /\ i \in DOMAIN controls
    /\ DeleteTask(controls[i].task)
    /\ controls' = UiUpdate(RemoveControl(controls, i), tab, tasks')
    /\ UNCHANGED <<tab, cmp, disk, listing>>

\* TaskUi.delete_clicked of control i, and TodoApp.on_task_event(DELETE)
DeleteClicked(i) ==
    /\ i \in DOMAIN controls
    /\ DeleteTask(controls[i].task)
    /\ controls' = IF result' = "True"
                    THEN UiUpdate(RemoveControl(controls, i), tab, tasks')
                    ELSE controls
    /\ UNCHANGED <<tab, cmp, disk, listing>>

\* the user selects another tab: TodoApp.tabs_changed
TabsChanged(index) ==
    /\ steps < MaxSteps
    /\ index # tab
    /\ tab' = index
    /\ controls' = UiUpdate(controls, index, tasks)
    /\ call' = Called("tabs_changed", NoArgs)
    /\ result' = "None"
    /\ steps' = steps + 1
    /\ UNCHANGED <<tasks, file, obj, rec, made, cmp, disk, listing>>

UiNext ==
    \/ \E value \in StrArgs, uuid \in Ids \ (Keys(tasks) \cup StoredIds(tasks)) :
          AddClicked(value, uuid)
    \/ \E i \in 1..MaxIds, value \in StrArgs : SaveClicked(i, value)
    \/ \E i \in 1..MaxIds, value \in BoolArgs \cup {PyNone} : StatusChanged(i, value)
    \/ \E i \in 1..MaxIds : DeleteClicked(i)
    \/ \E index \in 0..(Len(TabTexts) - 1) : TabsChanged(index)

UiSpec == UiInit /\ [][UiNext]_vars

(***************************************************************************)
(* File specification: a store started on a well-formed file that another  *)
(* program, or a person, wrote: an array of one or two task records whose  *)
(* task_id may be the empty string and may be repeated.                    *)
(***************************************************************************)
FileTaskIds == Ids \cup {0}

\* a record of such a file
FileRecord(task_id, name) ==
    [name |-> name, description |-> PyNone, due_date |-> PyNone,
     task_id |-> task_id, is_complete |-> PyBool(FALSE)]

WellFormedFiles ==
    {JsonFile(<<FileRecord(i, PyStr(<<"a">>))>>) : i \in FileTaskIds}
    \cup {JsonFile(<<FileRecord(i, PyStr(<<"a">>)), FileRecord(k, PyStr(<<"b">>))>>) :
             i \in FileTaskIds, k \in FileTaskIds}

\* str(uuid4()) for the records of f with an empty task_id: ids that differ
\* from each other and from every id in the file
FreshUuids(f) ==
    {u \in Uuids(f) :
        \A i \in DOMAIN f.recs :
            f.recs[i].task_id = 0 =>
                /\ \A k \in DOMAIN f.recs : u[i] # f.recs[k].task_id
                /\ \A k \in DOMAIN f.recs :
                      (k # i /\ f.recs[k].task_id = 0) => u[i] # u[k]}

\* TaskManager.__init__ on a path that holds such a file
FileInit ==
    /\ disk = "ok"
    /\ \E f \in WellFormedFiles : \E uuids \in FreshUuids(f) :
          /\ tasks = LoadTasks(<<>>, f, uuids).tasks
          /\ file = LoadTasks(<<>>, f, uuids).file
    /\ call = Called("__init__", NoArgs)
    /\ result = "None"
    /\ steps = 0
    /\ obj = NoTask
    /\ rec = NoTask
    /\ made = NoTask
    /\ cmp = NoTask
    /\ listing = <<>>
    /\ controls = <<>>
    /\ tab = 0

FileNext ==
    \/ Restart /\ UNCHANGED others
    \/ LoadTasksCall /\ UNCHANGED others
    \/ \E task \in UiTasks : AddTask(task) /\ UNCHANGED others
    \/ \E task_id \in FileTaskIds, name \in {PyNone, PyStr(<<"a">>)},
          is_complete \in {PyNone, PyBool(TRUE)} :
          ModifyTask(task_id, name, PyNone, PyNone, is_complete)
             /\ UNCHANGED others
    \/ \E task_id \in FileTaskIds : DeleteTask(task_id) /\ UNCHANGED others

FileSpec == FileInit /\ [][FileNext]_vars

(***************************************************************************)
(* Window on any file: TodoApp started on a well-formed file that another  *)
(* program may have written.                                               *)
(***************************************************************************)

\* TodoApp.__init__ on such a file: TaskManager() loads it, TodoApp.load_tasks
\* loads it again (every record with an empty task_id gets a new uuid each
\* time) and appends a TaskUi for every Task object of the second load
UiFileInit ==
    /\ disk = "ok"
    /\ \E f \in WellFormedFiles : \E first \in FreshUuids(f), again \in FreshUuids(f) :
          LET constructed == LoadTasks(<<>>, f, first)
              loaded == LoadTasks(constructed.tasks, constructed.file, again)
          IN  /\ tasks = loaded.tasks
              /\ file = loaded.file
              /\ controls = [i \in DOMAIN loaded.tasks |->
                                NewTaskUi(TasksTuple(loaded.tasks)[i].task_id)]
    /\ tab = 0
    /\ call = Called("__init__", NoArgs)
    /\ result = "None"
    /\ steps = 0
    /\ obj = NoTask
    /\ rec = NoTask
    /\ made = NoTask
    /\ cmp = NoTask
    /\ listing = <<>>

UiFileSpec == UiFileInit /\ [][UiNext]_vars

(***************************************************************************)
(* Store specification with a file system that can fail: the store as      *)
(* above, and an environment that makes opening the file for writing, or   *)
(* writing to it, fail with an OSError, and that repairs it.               *)
(***************************************************************************)
FailureModes == {"open fails", "write fails"}

\* from now on open(path, "w"), or the write after it, raises OSError
DiskBreaks(mode) ==
    /\ steps < MaxSteps
    /\ disk = "ok"
    /\ disk' = mode
    /\ call' = Called("disk breaks", NoArgs)
    /\ result' = "None"
    /\ steps' = steps + 1
    /\ UNCHANGED <<tasks, file, obj, rec, made, cmp, listing, controls, tab>>

\* the file can be written again
DiskRepaired ==
    /\ steps < MaxSteps
    /\ disk # "ok"
    /\ disk' = "ok"
    /\ call' = Called("disk repaired", NoArgs)
    /\ result' = "None"
    /\ steps' = steps + 1
    /\ UNCHANGED <<tasks, file, obj, rec, made, cmp, listing, controls, tab>>

IoNext ==
    \/ Next
    \/ \E mode \in FailureModes : DiskBreaks(mode)
    \/ DiskRepaired

IoSpec == Init /\ [][IoNext]_vars

(***************************************************************************)
(* Task specification: one Task object, its constructor, its setters and   *)
(* the round trip through to_dict and from_dict.                           *)
(***************************************************************************)
TaskSpecInit ==
    /\ tasks = <<>>
    /\ file = AbsentFile
    /\ call = Called("none", NoArgs)
    /\ result = "None"
    /\ steps = 0
    /\ obj = NoTask
    /\ rec = NoTask
    /\ made = NoTask
    /\ cmp = NoTask
    /\ disk = "ok"
    /\ listing = <<>>
    /\ controls = <<>>
    /\ tab = 0

\* obj = Task(name, description=, due_date=, task_id=, is_complete=); a
\* constructor that raises makes no object.  rec and made hold the values of
\* the round trip when it is the last call, and nothing otherwise.
NewTask(name, description, due_date, task_id, is_complete) ==
    /\ \E uuid \in (IF task_id = 0 THEN Ids ELSE {task_id}) :
          LET r == TaskInit(name, description, due_date, task_id, is_complete, uuid)
          IN  /\ obj' = r.task
              /\ result' = Outcome(r.exc, "None")
    /\ call' = Called("Task",
                      [task_id |-> task_id, name |-> name, description |-> description,
                       due_date |-> due_date, is_complete |-> is_complete])
    /\ rec' = NoTask
    /\ made' = NoTask
    /\ UNCHANGED <<tasks, file, steps>>

\* obj.name = value
SetName(value) ==
    /\ obj # NoTask
    /\ obj' = NameSetter(obj, value).task
    /\ result' = Outcome(NameSetter(obj, value).exc, "None")
    /\ call' = Called("name.setter", [NoArgs EXCEPT !.name = value])
    /\ rec' = NoTask
    /\ made' = NoTask
    /\ UNCHANGED <<tasks, file, steps>>

\* obj.description = value
SetDescription(value) ==
    /\ obj # NoTask
    /\ obj' = DescriptionSetter(obj, value).task
    /\ result' = Outcome(DescriptionSetter(obj, value).exc, "None")
    /\ call' = Called("description.setter", [NoArgs EXCEPT !.description = value])
    /\ rec' = NoTask
    /\ made' = NoTask
    /\ UNCHANGED <<tasks, file, steps>>

\* obj.due_date = value
SetDueDate(value) ==
    /\ obj # NoTask
    /\ obj' = DueDateSetter(obj, value).task
    /\ result' = "None"
    /\ call' = Called("due_date.setter", [NoArgs EXCEPT !.due_date = value])
    /\ rec' = NoTask
    /\ made' = NoTask
    /\ UNCHANGED <<tasks, file, steps>>

\* obj.is_complete = value
SetIsComplete(value) ==
    /\ obj # NoTask
    /\ obj' = IsCompleteSetter(obj, value).task
    /\ result' = "None"
    /\ call' = Called("is_complete.setter", [NoArgs EXCEPT !.is_complete = value])
    /\ rec' = NoTask
    /\ made' = NoTask
    /\ UNCHANGED <<tasks, file, steps>>

\* rec = obj.to_dict(); made = Task.from_dict(rec)
RoundTrip ==
    /\ obj # NoTask
    /\ rec' = ToDict(obj)
    /\ \E uuid \in Ids :
          LET r == FromDict(ToDict(obj), uuid)
          IN  /\ made' = r.task
              /\ result' = Outcome(r.exc, "None")
    /\ call' = Called("from_dict", NoArgs)
    /\ UNCHANGED <<tasks, file, steps, obj>>

TaskNext ==
    \/ \E name \in AllStrArgs, description \in AllStrArgs \cup {PyNone},
          due_date \in DateTimes \cup {PyNone}, task_id \in Ids \cup {0},
          is_complete \in BoolArgs :
          NewTask(name, description, due_date, task_id, is_complete)
             /\ UNCHANGED others
    \/ \E value \in AllStrArgs :
          SetName(value) /\ UNCHANGED others
    \/ \E value \in AllStrArgs \cup {PyNone} :
          SetDescription(value) /\ UNCHANGED others
    \/ \E value \in DateTimes \cup {PyNone} :
          SetDueDate(value) /\ UNCHANGED others
    \/ \E value \in BoolArgs :
          SetIsComplete(value) /\ UNCHANGED others
    \/ RoundTrip /\ UNCHANGED others

TaskSpec == TaskSpecInit /\ [][TaskNext]_vars

(***************************************************************************)
(* Comparison specification: a caller holds a Task and compares it with    *)
(* another value, which is a Task or None.                                 *)
(***************************************************************************)
CompareInit ==
    /\ tasks = <<>>
    /\ file = AbsentFile
    /\ call = Called("none", NoArgs)
    /\ result = "None"
    /\ steps = 0
    /\ obj \in NewTasks
    /\ rec = NoTask
    /\ made = NoTask
    /\ cmp = NoTask
    /\ disk = "ok"
    /\ listing = <<>>
    /\ controls = <<>>
    /\ tab = 0

\* obj == other, obj != other, hash(obj) and, for a Task, hash(other)
Compare(other) ==
    /\ cmp' = [other |-> other,
               eq |-> TaskEq(obj, other),
               ne |-> TaskNe(obj, other),
               hash_self |-> TaskHash(obj),
               hash_other |-> IF IsTask(other) THEN TaskHash(other) ELSE 0]
    /\ call' = Called("__eq__", NoArgs)
    /\ result' = IF TaskEq(obj, other) THEN "True" ELSE "False"
    /\ UNCHANGED <<tasks, file, steps, obj, rec, made, disk, listing, controls, tab>>

CompareNext == \E other \in NewTasks \cup {PyNone} : Compare(other)

CompareSpec == CompareInit /\ [][CompareNext]_vars

(***************************************************************************)
(* Properties                                                              *)
(***************************************************************************)
StoreOps == {"add_task", "modify_task", "delete_task"}
LoadOps == {"__init__", "load_tasks"}

\* a and b (Tasks or records) agree on the id and on every field
SameFields(a, b) ==
    /\ a.task_id = b.task_id
    /\ a.name = b.name
    /\ a.description = b.description
    /\ a.due_date = b.due_date
    /\ a.is_complete = b.is_complete

\* value is a str that is empty or holds only whitespace
IsBlank(value) == value.t = "str" /\ \A i \in DOMAIN value.v : value.v[i] = " "

\* value is a str with a character that is no whitespace
IsText(value) == value.t = "str" /\ \E i \in DOMAIN value.v : value.v[i] # " "

KeyList(d) == [i \in DOMAIN d |-> d[i].key]

\* every entry of d other than the one under key k is in e, at its place
OthersUnchanged(d, e, k) ==
    /\ KeyList(e) = KeyList(d)
    /\ \A i \in DOMAIN d : d[i].key # k => e[i] = d[i]

\* C1: whenever add_task, modify_task or delete_task has returned True, the
\* file is a JSON array with one record per task of the in-memory mapping, in
\* its order, each with the task's id and field values.
C1_FileIsMemoryOnSuccess ==
    (call.op \in StoreOps /\ result = "True") =>
        /\ file.kind = "json"
        /\ Len(file.recs) = Len(tasks)
        /\ \A i \in DOMAIN tasks : SameFields(file.recs[i], tasks[i].task)

C1_Witness ==
    /\ call.op = "modify_task"
    /\ result = "True"
    /\ Len(tasks) = 2
    /\ call.name # PyNone

\* C2: add_task(t) returns True when no task with t's id is stored and False
\* when one is; afterwards exactly one stored task has that id, and after
\* False the mapping and the file are as before.
C2_AddTaskContract ==
    [][call'.op = "add_task" =>
          /\ result' = (IF HasKey(tasks, call'.task_id) THEN "False" ELSE "True")
          /\ Cardinality({i \in DOMAIN tasks' :
                             tasks'[i].task.task_id = call'.task_id}) = 1
          /\ HasKey(tasks, call'.task_id) => (tasks' = tasks /\ file' = file)]_vars

\* C3 as stated: modify_task on a stored id gives every field whose argument
\* is not None (and is a value its setter takes) the new value, and leaves the
\* fields whose argument is None, the other tasks and the stored ids as they
\* were.
C3_EverySuppliedFieldChanges ==
    [][(call'.op = "modify_task" /\ HasKey(tasks, call'.task_id)) =>
          LET old == DictGet(tasks, call'.task_id)
              new == DictGet(tasks', call'.task_id)
          IN  /\ OthersUnchanged(tasks, tasks', call'.task_id)
              /\ new.task_id = old.task_id
              /\ new.name = (IF IsText(call'.name)
                             THEN PyStr(Strip(call'.name.v)) ELSE old.name)
              /\ new.description = (IF IsText(call'.description)
                                    THEN PyStr(Strip(call'.description.v))
                                    ELSE old.description)
              /\ new.due_date = (IF call'.due_date # PyNone
                                 THEN call'.due_date ELSE old.due_date)
              /\ new.is_complete = (IF call'.is_complete # PyNone
                                    THEN call'.is_complete ELSE old.is_complete)]_vars

\* C3 amended: modify_task on a stored id applies the arguments that are not
\* None in the order name, description, due_date, is_complete (strings
\* trimmed) until a setter rejects one: a blank name or description raises
\* ValueError, and that field and the ones after it keep their values.  The
\* fields whose argument is None, the other tasks and the stored ids are as
\* they were in every case.
C3_SuppliedFieldsChangeUntilRejected ==
    [][(call'.op = "modify_task" /\ HasKey(tasks, call'.task_id)) =>
          LET old == DictGet(tasks, call'.task_id)
              new == DictGet(tasks', call'.task_id)
              nameRejected == IsBlank(call'.name)
              rejected == nameRejected \/ IsBlank(call'.description)
          IN  /\ OthersUnchanged(tasks, tasks', call'.task_id)
              /\ new.task_id = old.task_id
              /\ (result' = "ValueError") = rejected
              /\ new.name = (IF IsText(call'.name)
                             THEN PyStr(Strip(call'.name.v)) ELSE old.name)
              /\ new.description = (IF IsText(call'.description) /\ ~nameRejected
                                    THEN PyStr(Strip(call'.description.v))
                                    ELSE old.description)
              /\ new.due_date = (IF call'.due_date # PyNone /\ ~rejected
                                 THEN call'.due_date ELSE old.due_date)
              /\ new.is_complete = (IF call'.is_complete # PyNone /\ ~rejected
                                    THEN call'.is_complete ELSE old.is_complete)]_vars

C3_Witness ==
    /\ call.op = "modify_task"
    /\ HasKey(tasks, call.task_id)
    /\ result = "True"
    /\ call.is_complete = PyBool(FALSE)
    /\ call.name = PyStr(<<" ", "b", " ">>)
    /\ call.description = PyNone
    /\ DictGet(tasks, call.task_id).description # PyNone
    /\ Len(tasks) = 2

\* C4: modify_task with an id that is not stored returns False and leaves the
\* in-memory mapping and the file as they were, whatever the other arguments.
C4_ModifyMissingIsNoOp ==
    [][(call'.op = "modify_task" /\ ~HasKey(tasks, call'.task_id)) =>
          /\ result' = "False"
          /\ tasks' = tasks
          /\ file' = file]_vars

C4_Witness ==
    /\ call.op = "modify_task"
    /\ ~HasKey(tasks, call.task_id)
    /\ result = "False"
    /\ tasks # <<>>
    /\ call.name # PyNone
    /\ call.due_date # PyNone
    /\ call.is_complete # PyNone

\* C5: delete_task with an id that is not stored returns False, raises
\* nothing, writes no file and leaves the in-memory mapping as it was.
C5_DeleteMissingReturnsFalse ==
    [][(call'.op = "delete_task" /\ ~HasKey(tasks, call'.task_id)) =>
          /\ result' = "False"
          /\ tasks' = tasks
          /\ file' = file]_vars

\* C6: delete_task with a stored id returns True; afterwards the id is in
\* neither the tasks listing nor the file, and every other stored task is still
\* there with its fields.
C6_DeleteStoredRemoves ==
    [][(call'.op = "delete_task" /\ HasKey(tasks, call'.task_id)) =>
          /\ result' = "True"
          /\ ~HasKey(tasks', call'.task_id)
          /\ file'.kind = "json"
          /\ \A i \in DOMAIN file'.recs : file'.recs[i].task_id # call'.task_id
          /\ \A i \in DOMAIN tasks :
                tasks[i].key # call'.task_id =>
                    \E j \in DOMAIN tasks' : tasks'[j] = tasks[i]]_vars

\* C7: whenever load_tasks runs on a file that holds invalid JSON, at
\* construction or on a reload, the in-memory mapping is empty afterwards, the
\* file is the empty array and no error reaches the caller.
C7_InvalidFileGivesEmptyStore ==
    [][(call'.op \in LoadOps /\ file.kind = "invalid") =>
          /\ tasks' = <<>>
          /\ file' = JsonFile(<<>>)
          /\ result' = "None"]_vars

\* C8 as stated: whenever load_tasks runs while the file is absent, at
\* construction or on a reload, the in-memory mapping is empty afterwards and
\* no file is created.
C8_AbsentFileGivesEmptyStore ==
    [][(call'.op \in LoadOps /\ file.kind = "absent") =>
          /\ tasks' = <<>>
          /\ file' = AbsentFile]_vars

\* C8 amended: load_tasks on an absent file does nothing: at construction the
\* in-memory mapping is empty afterwards, on a reload it is what it was before;
\* no file is created and nothing is raised.
C8_AbsentFileLoadDoesNothing ==
    [][(call'.op \in LoadOps /\ file.kind = "absent") =>
          /\ tasks' = (IF call'.op = "__init__" THEN <<>> ELSE tasks)
          /\ file' = AbsentFile
          /\ result' = "None"]_vars

C8_Witness ==
    /\ call.op = "load_tasks"
    /\ file.kind = "absent"
    /\ tasks # <<>>
    /\ result = "None"

\* C9: for every Task t, Task.from_dict(t.to_dict()) succeeds and has t's id,
\* name, description, due date and is_complete; in the record a due date that
\* is not None is an ISO-8601 str and None stays None.
C9_RoundTripWithIsoDueDate ==
    call.op = "from_dict" =>
        /\ result = "None"
        /\ SameFields(made, obj)
        /\ obj.due_date = PyNone => rec.due_date = PyNone
        /\ obj.due_date # PyNone => rec.due_date.t = "str"

\* C10: setting the name, or the description, of a Task to an empty or
\* whitespace-only str raises ValueError and leaves every field of the Task as
\* it was.
C10_BlankIsRejected ==
    [][((call'.op = "name.setter" /\ IsBlank(call'.name))
        \/ (call'.op = "description.setter" /\ IsBlank(call'.description))) =>
          /\ result' = "ValueError"
          /\ obj' = obj]_vars

C10_Witness ==
    /\ call.op = "description.setter"
    /\ call.description = PyStr(<<" ", " ">>)
    /\ result = "ValueError"
    /\ obj # NoTask
    /\ obj.description # PyNone

\* n is s without the spaces at its two ends
Trimmed(s, n) ==
    /\ n # <<>>
    /\ n[1] # " "
    /\ n[Len(n)] # " "
    /\ \E i \in 1..Len(s) :
          /\ i + Len(n) - 1 <= Len(s)
          /\ n = SubSeq(s, i, i + Len(n) - 1)
          /\ \A j \in 1..Len(s) : (j < i \/ j > i + Len(n) - 1) => s[j] = " "

\* C11: for every str that is not empty after trimming, Task(name) (with a
\* description that is None or not blank) and the name setter of an existing
\* Task both succeed, and the name is then the str without the whitespace at
\* its two ends.
C11_NameIsStoredStripped ==
    [][((call'.op = "name.setter" /\ IsText(call'.name))
        \/ (call'.op = "Task" /\ IsText(call'.name)
              /\ ~IsBlank(call'.description))) =>
          /\ result' = "None"
          /\ obj' # NoTask
          /\ obj'.name.t = "str"
          /\ Trimmed(call'.name.v, obj'.name.v)]_vars

C11_Witness ==
    /\ call.op = "name.setter"
    /\ call.name = PyStr(<<" ", "a">>)
    /\ result = "None"
    /\ obj # NoTask
    /\ obj.name = PyStr(<<"a">>)

\* the values the records of task task_id in file f hold for a field
FileName(f, task_id) ==
    {f.recs[i].name : i \in {j \in DOMAIN f.recs : f.recs[j].task_id = task_id}}

FileDescription(f, task_id) ==
    {f.recs[i].description : i \in {j \in DOMAIN f.recs : f.recs[j].task_id = task_id}}

\* C12: when modify_task on a stored id is given a blank name or a blank
\* description, the call raises ValueError and writes nothing: the file, and so
\* the value it holds for the rejected field, is as it was before the call.
C12_RejectedValueNotWritten ==
    [][(call'.op = "modify_task" /\ HasKey(tasks, call'.task_id)
        /\ (IsBlank(call'.name) \/ IsBlank(call'.description))) =>
          /\ result' = "ValueError"
          /\ file' = file
          /\ IsBlank(call'.name) =>
                FileName(file', call'.task_id) = FileName(file, call'.task_id)
          /\ IsBlank(call'.description) =>
                FileDescription(file', call'.task_id)
                   = FileDescription(file, call'.task_id)]_vars

\* a valid name was applied in memory before the blank description was
\* rejected, and the file still holds the task as it was
C12_Witness ==
    /\ call.op = "modify_task"
    /\ IsText(call.name)
    /\ IsBlank(call.description)
    /\ result = "ValueError"
    /\ file.kind = "json"
    /\ HasKey(tasks, call.task_id)
    /\ FileName(file, call.task_id) # {}
    /\ DictGet(tasks, call.task_id).name \notin FileName(file, call.task_id)

\* the call reaches save_tasks: add_task of a new id, modify_task of a stored
\* id with no rejected value, delete_task of a stored id
ReachesSave ==
    \/ call'.op = "add_task" /\ ~HasKey(tasks, call'.task_id)
    \/ call'.op = "modify_task" /\ HasKey(tasks, call'.task_id)
          /\ ~IsBlank(call'.name) /\ ~IsBlank(call'.description)
    \/ call'.op = "delete_task" /\ HasKey(tasks, call'.task_id)

\* C13: when the file cannot be opened for writing, or written, during
\* add_task, modify_task or delete_task, the call ends with the OSError: it
\* returns neither True nor False, and the file is what the one failed attempt
\* left (untouched when open failed, truncated when the write failed), never
\* the result of a second, successful write.
C13_WriteErrorPropagates ==
    [][(ReachesSave /\ disk \in FailureModes) =>
          /\ result' = "OSError"
          /\ disk = "open fails" => file' = file
          /\ disk = "write fails" => file' = InvalidFile(<<>>)]_vars

\* a delete whose write failed: the task is gone from memory, the file still
\* holds it
C13_Witness ==
    /\ call.op = "delete_task"
    /\ result = "OSError"
    /\ disk = "open fails"
    /\ tasks = <<>>
    /\ file.kind = "json"
    /\ file.recs # <<>>

\* C14: the task_id of a Task is the one its constructor gave it, whatever is
\* done to the Task afterwards: add_task stores the object under its id with
\* that id, and every store operation (modify_task calls the four setters of
\* the stored object, with accepted and with rejected values) leaves the
\* task_id of every object that stays in the store as it was.
C14_TaskIdIsFixed ==
    [][call'.op \in StoreOps =>
          /\ \A k \in Keys(tasks) \cap Keys(tasks') :
                DictGet(tasks', k).task_id = DictGet(tasks, k).task_id
          /\ (call'.op = "add_task" /\ ~HasKey(tasks, call'.task_id)) =>
                /\ HasKey(tasks', call'.task_id)
                /\ DictGet(tasks', call'.task_id).task_id = call'.task_id]_vars

\* every field of a stored task but its id was changed by one modify_task
C14_Witness ==
    /\ call.op = "modify_task"
    /\ result = "True"
    /\ call.name # PyNone
    /\ call.description # PyNone
    /\ call.is_complete = PyBool(TRUE)
    /\ HasKey(tasks, call.task_id)
    /\ DictGet(tasks, call.task_id).task_id = call.task_id
    /\ DictGet(tasks, call.task_id).name = PyStr(Strip(call.name.v))
    /\ DictGet(tasks, call.task_id).is_complete = PyBool(TRUE)

\* C15: for two Tasks, a == b exactly when their task_ids are equal, whatever
\* the other fields hold; a != b is the negation of a == b; and two equal
\* Tasks have the same hash.
C15_EqualityIsById ==
    (call.op = "__eq__" /\ IsTask(cmp.other)) =>
        /\ cmp.eq <=> (obj.task_id = cmp.other.task_id)
        /\ cmp.ne <=> ~cmp.eq
        /\ cmp.eq => cmp.hash_self = cmp.hash_other

\* two Tasks with the same id and different names, descriptions, due dates and
\* completion compare equal
C15_Witness ==
    /\ call.op = "__eq__"
    /\ IsTask(cmp.other)
    /\ cmp.eq
    /\ ~cmp.ne
    /\ cmp.other.name # obj.name
    /\ cmp.other.description # obj.description
    /\ cmp.other.due_date # obj.due_date
    /\ cmp.other.is_complete # obj.is_complete

\* the object a reference of a listing refers to, while it is in the store
Deref(ref) == DictGet(tasks, ref)

\* C16: in the scenario that starts with no file, for a new Task with no due
\* date that is not complete: add_task returns True and the listing then holds
\* exactly that one task, with its name, not complete; modify_task(id,
\* is_complete=True) returns True and the listing then shows it complete;
\* delete_task(id) returns True, the listing is then empty and the file holds
\* the empty array.
C16_AddCompleteDeleteScenario ==
    [][/\ (call'.op = "add_task" /\ call'.due_date = PyNone
            /\ call'.is_complete = PyBool(FALSE)) =>
              /\ result' = "True"
              /\ Len(tasks') = 1
              /\ DictGet(tasks', call'.task_id) # PyNone
              /\ DictGet(tasks', call'.task_id).name = call'.name
              /\ DictGet(tasks', call'.task_id).is_complete = PyBool(FALSE)
       /\ call'.op = "tasks" =>
              /\ tasks' = tasks
              /\ Len(listing') = Len(tasks)
              /\ \A i \in DOMAIN tasks : listing'[i] = tasks[i].task.task_id
       /\ (call'.op = "modify_task" /\ Len(listing) = 1
            /\ Deref(listing[1]).due_date = PyNone) =>
              /\ result' = "True"
              /\ Len(tasks') = 1
              /\ DictGet(tasks', listing[1]).is_complete = PyBool(TRUE)
              /\ DictGet(tasks', listing[1]).name = Deref(listing[1]).name
       /\ (call'.op = "delete_task" /\ Len(listing) = 1
            /\ Deref(listing[1]).due_date = PyNone) =>
              /\ result' = "True"
              /\ tasks' = <<>>
              /\ file' = JsonFile(<<>>)]_vars

\* the end of the scenario: the last listing is empty and the file holds []
C16_Witness ==
    /\ call.op = "tasks"
    /\ steps = 3
    /\ listing = <<>>
    /\ tasks = <<>>
    /\ file = JsonFile(<<>>)

C18_VisibleIffMatchesTab ==
    \A i \in DOMAIN controls :
        LET task == UiTask(tasks, controls[i].task)
        IN  controls[i].visible <=>
              \/ TabTexts[tab + 1] = "all"
              \/ TabTexts[tab + 1] = "active" /\ task.is_complete = PyBool(FALSE)
              \/ TabTexts[tab + 1] = "completed" /\ task.is_complete = PyBool(TRUE)

\* a task was toggled to complete while the "active" tab was selected: its
\* control is hidden
C18_Witness ==
    /\ TabTexts[tab + 1] = "active"
    /\ call.op = "modify_task"
    /\ call.is_complete = PyBool(TRUE)
    /\ result = "True"
    /\ \E i \in DOMAIN controls :
          /\ controls[i].task = call.task_id
          /\ ~controls[i].visible

\* C19: a modify_task call that raises a validation error for one of its
\* fields has applied none of the fields it was given: the in-memory mapping
\* is as it was before the call, and if it matched the file it still does.
C19_ModifyIsAllOrNothing ==
    [][(call'.op = "modify_task" /\ HasKey(tasks, call'.task_id)
        /\ result' = "ValueError") =>
          /\ tasks' = tasks
          /\ file = SaveTasks(tasks).file => file' = SaveTasks(tasks').file]_vars

\* C20: a reload (load_tasks, or a new TaskManager on the same path) that
\* follows a successful add_task, modify_task or delete_task succeeds and
\* gives the mapping it replaces: the same ids, in the same order, each with
\* the same name, description, due date and is_complete, and the file is left
\* as it was; and a reload that follows a successful reload changes nothing.
C20_ReloadGivesWhatWasSaved ==
    [][/\ (call'.op \in LoadOps /\ call.op \in StoreOps /\ result = "True") =>
              /\ result' = "None"
              /\ Keys(tasks') = Keys(tasks)
              /\ tasks' = tasks
              /\ file' = file
       /\ (call'.op \in LoadOps /\ call.op \in LoadOps /\ result = "None") =>
              /\ result' = "None"
              /\ tasks' = tasks
              /\ file' = file]_vars

\* a reload at the end of a run of three operations gave a store that holds
\* one completed task with a description, as the file has it
C20_Witness ==
    /\ call.op \in LoadOps
    /\ steps = 3
    /\ result = "None"
    /\ file.kind = "json"
    /\ Len(tasks) = 1
    /\ tasks[1].task.is_complete = PyBool(TRUE)
    /\ tasks[1].task.description # PyNone
    /\ Len(file.recs) = 1
    /\ file.recs[1] = ToDict(tasks[1].task)

\* C21: in every state of a store - after it was constructed on any
\* well-formed file, records with an empty or a repeated task_id included,
\* and after load_tasks, add_task, modify_task and delete_task - every key of
\* the in-memory mapping is the task_id of the task stored under it.
C21_KeyIsTaskId ==
    \A i \in DOMAIN tasks : tasks[i].task.task_id = tasks[i].key

\* the Task objects of the controls in task_list, in order, by task_id
ControlTasks == [i \in DOMAIN controls |-> controls[i].task]

\* the Task objects the store holds, in the order of its mapping, by task_id
StoredTasks == [i \in DOMAIN tasks |-> tasks[i].task.task_id]

\* C22: in every state of the window, started on any well-formed file, and
\* after any add click, save, complete toggle, delete click or tab change,
\* the controls of task_list and the Task objects of the store correspond one
\* to one (no control without a stored task, no stored task without a
\* control, no task with two controls); and a handler appends a control only
\* when its add_task returned True and removes one only when its delete_task
\* returned True.
C22_ControlsMatchStore ==
    /\ [](/\ ControlTasks = StoredTasks
          /\ \A i \in DOMAIN controls : \A k \in DOMAIN controls :
                 controls[i].task = controls[k].task => i = k)
    /\ [][/\ Len(controls') > Len(controls) =>
                /\ call'.op = "add_task" /\ result' = "True"
                /\ controls'[Len(controls')].task = call'.task_id
          /\ Len(controls') < Len(controls) =>
                /\ call'.op = "delete_task" /\ result' = "True"
                /\ \A i \in DOMAIN controls' : controls'[i].task # call'.task_id
          /\ (call'.op = "add_task" /\ result' = "True") =>
                Len(controls') = Len(controls) + 1
          /\ (call'.op = "delete_task" /\ result' = "True") =>
                Len(controls') = Len(controls) - 1]_vars

\* a delete click removed one of two controls, one of them appended by an add
\* click, and the control that stays is the one of the task that stays
C22_Witness ==
    /\ call.op = "delete_task"
    /\ result = "True"
    /\ steps >= 2
    /\ Len(controls) = 1
    /\ ControlTasks = StoredTasks


====
